---------------------------- MODULE Spec2Model ----------------------------
(***************************************************************************)
(* Model of arduino_sender.ino: an on-off-keying transmitter.  loop()      *)
(* polls an analog input and the serial receive buffer; on activity it     *)
(* consumes one byte, runs readHeartBeat() (a 5000 ms sampling window) and,*)
(* if the derived rate exceeds 60 or the byte is 'X', bit-bangs            *)
(* sync_pattern_start, the 8-bit patterns of the password and              *)
(* sync_pattern_end onto pin 8 through send_string().                      *)
(*                                                                         *)
(* Conventions.  A String is a sequence of one-character strings.  A char  *)
(* is the integer the C++ expression yields after integral promotion.      *)
(* Only delay() takes time; clock is millis() counted from the entry of    *)
(* the current loop() call.  Sequences are 1-based, so the C index i reads *)
(* element i + 1.                                                          *)
(***************************************************************************)
EXTENDS Integers, Sequences, FiniteSets, TLC

VARIABLES
    pc,              \* position of the single thread of control
    pin,             \* level of digital pin 8
    password,        \* String password (line 2), fixed for a run
    charSigned,      \* whether plain char is signed on the target build
    sensorValue,     \* loop()'s local sensorValue
    inChar,          \* char inChar (line 9)
    heartbeat_rate,  \* int heartbeat_rate (line 8)
    rate,            \* readHeartBeat()'s local rate
    clock,           \* millis(), counted from the entry of this loop() call
    cur_sec,         \* readHeartBeat()'s local cur_sec
    serialIn,        \* bytes waiting in the serial receive buffer
    consumed,        \* bytes Serial.read() took out in this loop() call
    i,               \* loop()'s payload index (for-loop at line 38)
    binary_pattern,  \* loop()'s local binary_pattern
    string_data,     \* send_string()'s parameter
    j,               \* send_string()'s index (its local i)
    phase,           \* which send_string() call of loop() is active
    sent,            \* the characters handed to send_string() in this frame
    writes,          \* the levels digitalWrite() wrote in this frame
    firstWrites,     \* the levels written by the first completed frame
    pathsSeen,       \* the trigger paths that have started a frame
    serialOut,       \* the lines Serial.println() wrote in this loop() call
    reading,         \* readHeartBeat()'s local sensorValue (line 62)
    xCredit          \* 'X' bytes received less frames the 'X' path started

vars == <<pc, pin, password, charSigned, sensorValue, inChar, heartbeat_rate,
          rate, clock, cur_sec, serialIn, consumed, i, binary_pattern,
          string_data, j, phase, sent, writes, firstWrites, pathsSeen,
          serialOut, reading, xCredit>>

\* Every variable but the diagnostic output.
protoVars == <<pc, pin, password, charSigned, sensorValue, inChar,
               heartbeat_rate, rate, clock, cur_sec, serialIn, consumed, i,
               binary_pattern, string_data, j, phase, sent, writes,
               firstWrites, pathsSeen, reading, xCredit>>

---------------------------------------------------------------------------
(* Program constants *)

sync_pattern_start == <<"0", "0", "0", "1", "0", "1", "1", "0", "0">>
sync_pattern_end == <<"0", "0", "0", "0", "1", "1", "1", "1">>
signal_time == 100
PollDelay == 200
Window == 5000
RateScale == 12
RateThreshold == 60
PadWidth == 8
CharX == 88
CharSpace == 32
ReadEmpty == -1
IntBits == 16

(* Bounds of the model *)

MaxSerial == 2

\* Readings analogRead() returns: no signal, and the largest 10-bit reading.
AnalogValues == {0, 1023}
\* Bytes the serial peer sends: 'X' and 'x'.
CommandBytes == {88, 120}
\* Passwords: "", "A", "PASS" and the one non-ASCII byte 0xC8.
Secrets == {<<>>, <<65>>, <<80, 65, 83, 83>>, <<200>>}

---------------------------------------------------------------------------
(* Pure helpers *)

\* A byte stored in a char, after integral promotion to int.
CharOf(b) == IF charSigned /\ b >= 128 THEN b - 256 ELSE b

\* Serial.read(): the first waiting byte, or -1 when there is none.
SerialRead == IF Len(serialIn) > 0 THEN Head(serialIn) ELSE ReadEmpty

\* The int Serial.read() returned, stored in char inChar and promoted again.
ToChar(n) == CharOf(n % 256)

Digit == <<"0", "1", "2", "3", "4", "5", "6", "7", "8", "9">>

\* itoa's digit loop: the digits of n >= 0 in the given base.
RECURSIVE Itoa(_, _)
Itoa(n, base) ==
    IF n < base THEN <<Digit[n + 1]>>
    ELSE Append(Itoa(n \div base, base), Digit[(n % base) + 1])

\* String(int value, BIN): itoa with radix 2 reads a negative int as unsigned.
StringBIN(value) == Itoa(IF value < 0 THEN value + 2 ^ IntBits ELSE value, 2)

\* Serial.println(int): the decimal digits (the values printed are >= 0).
StringDEC(value) == Itoa(value, 10)

\* PinLevel with the two levels exchanged.
PinLevelNotInverted(c) == IF c = "0" THEN "LOW" ELSE "HIGH"

\* The level send_string() writes for one character.
PinLevel(c) == IF c = "0" THEN "HIGH" ELSE "LOW"

\* Trigger with >= in place of >.
TriggerAtThreshold == heartbeat_rate >= RateThreshold \/ inChar = CharX

\* Trigger comparing the byte with 'x' in place of 'X'.
TriggerLowerCase == heartbeat_rate > RateThreshold \/ inChar = 120

\* The condition of the if at line 35.
Trigger == heartbeat_rate > RateThreshold \/ inChar = CharX

\* The trigger path a frame is started by.
TriggerPath == IF inChar = CharX THEN "cmd" ELSE "rate"

---------------------------------------------------------------------------
(* Initial state: the globals as initialised, after setup() has run *)

Init ==
    /\ pc = "loop"
    /\ pin = "LOW"
    /\ password \in Secrets
    /\ charSigned \in BOOLEAN
    /\ sensorValue = 0
    /\ inChar = 0
    /\ heartbeat_rate = 0
    /\ rate = 0
    /\ clock = 0
    /\ cur_sec = 0
    /\ serialIn = <<>>
    /\ consumed = <<>>
    /\ i = 0
    /\ binary_pattern = <<>>
    /\ string_data = <<>>
    /\ j = 0
    /\ phase = "IDLE"
    /\ sent = <<>>
    /\ writes = <<>>
    /\ firstWrites = <<>>
    /\ pathsSeen = {}
    /\ serialOut = <<>>
    /\ reading = 0
    /\ xCredit = 0

---------------------------------------------------------------------------
(* Environment *)

\* The UART receive interrupt stores an arriving byte.
Receive(b) ==
    /\ Len(serialIn) < MaxSerial
    /\ serialIn' = Append(serialIn, b)
    /\ xCredit' = IF b = CharX THEN xCredit + 1 ELSE xCredit
    /\ UNCHANGED <<pc, pin, password, charSigned, sensorValue, inChar,
                   heartbeat_rate, rate, clock, cur_sec, consumed, i,
                   binary_pattern, string_data, j, phase, sent, writes,
                   firstWrites, pathsSeen, serialOut,
                   reading>>

---------------------------------------------------------------------------
(* loop() *)

\* Lines 31-32, condition false: loop() returns at once.
LoopIdle(v) ==
    /\ pc = "loop"
    /\ ~(v > 0 \/ Len(serialIn) > 0)
    /\ clock' = 0
    /\ UNCHANGED <<pc, pin, password, charSigned, sensorValue, inChar,
                   heartbeat_rate, rate, cur_sec, serialIn, consumed, i,
                   binary_pattern, string_data, j, phase, sent, writes,
                   firstWrites, pathsSeen, serialOut,
                   reading, xCredit>>

\* LoopActive taking a byte out of the buffer only when it is 'X'.
LoopActiveTakesOnlyX(v) ==
    /\ pc = "loop"
    /\ v > 0 \/ Len(serialIn) > 0
    /\ sensorValue' = v
    /\ inChar' = ToChar(SerialRead)
    /\ consumed' = IF Len(serialIn) > 0 /\ Head(serialIn) = CharX
                   THEN <<Head(serialIn)>> ELSE <<>>
    /\ serialIn' = IF Len(serialIn) > 0 /\ Head(serialIn) = CharX
                   THEN Tail(serialIn) ELSE serialIn
    /\ rate' = 0
    /\ clock' = 0
    /\ cur_sec' = 0
    /\ pc' = "monitor"
    /\ UNCHANGED <<pin, password, charSigned, heartbeat_rate, i,
                   binary_pattern, string_data, j, phase, sent, writes,
                   firstWrites, pathsSeen, serialOut,
                   reading, xCredit>>

\* Lines 31-34 and 59-60: activity; read one byte, enter readHeartBeat().
LoopActive(v) ==
    /\ pc = "loop"
    /\ v > 0 \/ Len(serialIn) > 0
    /\ sensorValue' = v
    /\ inChar' = ToChar(SerialRead)
    /\ consumed' = IF Len(serialIn) > 0 THEN <<Head(serialIn)>> ELSE <<>>
    /\ serialIn' = IF Len(serialIn) > 0 THEN Tail(serialIn) ELSE serialIn
    /\ rate' = 0
    /\ clock' = 0
    /\ cur_sec' = 0
    /\ pc' = "monitor"
    /\ UNCHANGED <<pin, password, charSigned, heartbeat_rate, i,
                   binary_pattern, string_data, j, phase, sent, writes,
                   firstWrites, pathsSeen, serialOut,
                   reading, xCredit>>

\* MonitorPoll that also shows an active poll on the output pin.
MonitorPollShowsPulse(v) ==
    /\ pc = "monitor"
    /\ clock - cur_sec < Window
    /\ reading' = v
    /\ rate' = IF v > 0 THEN rate + 1 ELSE rate
    /\ pin' = IF v > 0 THEN "HIGH" ELSE "LOW"
    /\ clock' = clock + PollDelay
    /\ UNCHANGED <<pc, password, charSigned, sensorValue, inChar,
                   heartbeat_rate, cur_sec, serialIn, consumed, i,
                   binary_pattern, string_data, j, phase, sent, writes,
                   firstWrites, pathsSeen, serialOut,
                   xCredit>>

\* MonitorPoll with the test inverted: it counts the silent polls.
MonitorPollCountsSilent(v) ==
    /\ pc = "monitor"
    /\ clock - cur_sec < Window
    /\ reading' = v
    /\ rate' = IF v > 0 THEN rate ELSE rate + 1
    /\ clock' = clock + PollDelay
    /\ UNCHANGED <<pc, pin, password, charSigned, sensorValue, inChar,
                   heartbeat_rate, cur_sec, serialIn, consumed, i,
                   binary_pattern, string_data, j, phase, sent, writes,
                   firstWrites, pathsSeen, serialOut,
                   xCredit>>

\* MonitorPoll counting every poll, with >= 0 in place of > 0.
MonitorPollCountsAll(v) ==
    /\ pc = "monitor"
    /\ clock - cur_sec < Window
    /\ reading' = v
    /\ rate' = IF v >= 0 THEN rate + 1 ELSE rate
    /\ clock' = clock + PollDelay
    /\ UNCHANGED <<pc, pin, password, charSigned, sensorValue, inChar,
                   heartbeat_rate, cur_sec, serialIn, consumed, i,
                   binary_pattern, string_data, j, phase, sent, writes,
                   firstWrites, pathsSeen, serialOut,
                   xCredit>>

\* Lines 61-67: one pass of readHeartBeat()'s while loop.
MonitorPoll(v) ==
    /\ pc = "monitor"
    /\ clock - cur_sec < Window
    /\ reading' = v
    /\ rate' = IF v > 0 THEN rate + 1 ELSE rate
    /\ clock' = clock + PollDelay
    /\ UNCHANGED <<pc, pin, password, charSigned, sensorValue, inChar,
                   heartbeat_rate, cur_sec, serialIn, consumed, i,
                   binary_pattern, string_data, j, phase, sent, writes,
                   firstWrites, pathsSeen, serialOut,
                   xCredit>>

\* MonitorReturn whose print statement increments the count it prints.
MonitorReturnPrintBumps ==
    /\ pc = "monitor"
    /\ ~(clock - cur_sec < Window)
    /\ serialOut' = Append(serialOut, StringDEC(rate + 1))
    /\ rate' = rate + 1
    /\ heartbeat_rate' = RateScale * (rate + 1)
    /\ reading' = 0
    /\ pc' = "decide"
    /\ UNCHANGED <<pin, password, charSigned, sensorValue, inChar, clock,
                   cur_sec, serialIn, consumed, i, binary_pattern,
                   string_data, j, phase, sent, writes, firstWrites,
                   pathsSeen,
                   xCredit>>

\* Lines 61, 68-69 and 34: the window is over; print and return 12 * rate.
MonitorReturn ==
    /\ pc = "monitor"
    /\ ~(clock - cur_sec < Window)
    /\ serialOut' = Append(serialOut, StringDEC(rate))
    /\ heartbeat_rate' = RateScale * rate
    /\ reading' = 0
    /\ pc' = "decide"
    /\ UNCHANGED <<pin, password, charSigned, sensorValue, inChar, rate,
                   clock, cur_sec, serialIn, consumed, i, binary_pattern,
                   string_data, j, phase, sent, writes, firstWrites,
                   pathsSeen,
                   xCredit>>

\* DecideSend without the test of line 35.
DecideSendUntested ==
    /\ pc = "decide"
    /\ phase' = "SENDING_START_SYNC"
    /\ string_data' = sync_pattern_start
    /\ j' = 0
    /\ sent' = sync_pattern_start
    /\ writes' = <<>>
    /\ pathsSeen' = pathsSeen \cup {TriggerPath}
    /\ xCredit' = IF TriggerPath = "cmd" THEN xCredit - 1 ELSE xCredit
    /\ pc' = "send"
    /\ UNCHANGED <<pin, password, charSigned, sensorValue, inChar,
                   heartbeat_rate, rate, clock, cur_sec, serialIn, consumed,
                   i, binary_pattern, firstWrites, serialOut,
                   reading>>

\* Lines 35-36: the trigger fires; call send_string(sync_pattern_start).
DecideSend ==
    /\ pc = "decide"
    /\ Trigger
    /\ phase' = "SENDING_START_SYNC"
    /\ string_data' = sync_pattern_start
    /\ j' = 0
    /\ sent' = sync_pattern_start
    /\ writes' = <<>>
    /\ pathsSeen' = pathsSeen \cup {TriggerPath}
    /\ xCredit' = IF TriggerPath = "cmd" THEN xCredit - 1 ELSE xCredit
    /\ pc' = "send"
    /\ UNCHANGED <<pin, password, charSigned, sensorValue, inChar,
                   heartbeat_rate, rate, clock, cur_sec, serialIn, consumed,
                   i, binary_pattern, firstWrites, serialOut,
                   reading>>

\* Lines 35 and 51-53: no trigger; reset and return.
DecideSkip ==
    /\ pc = "decide"
    /\ ~Trigger
    /\ sensorValue' = 0
    /\ heartbeat_rate' = 0
    /\ inChar' = CharSpace
    /\ rate' = 0
    /\ consumed' = <<>>
    /\ serialOut' = <<>>
    /\ pc' = "loop"
    /\ UNCHANGED <<pin, password, charSigned, clock, cur_sec, serialIn, i,
                   binary_pattern, string_data, j, phase, sent, writes,
                   firstWrites, pathsSeen,
                   reading, xCredit>>

\* SendBit that first waits until the serial peer has sent a byte.
SendBitWaitsForPeer ==
    /\ pc = "send"
    /\ j < Len(string_data)
    /\ Len(serialIn) > 0
    /\ pin' = PinLevel(string_data[j + 1])
    /\ writes' = Append(writes, PinLevel(string_data[j + 1]))
    /\ clock' = clock + signal_time
    /\ serialOut' = Append(serialOut, <<string_data[j + 1]>>)
    /\ j' = j + 1
    /\ UNCHANGED <<pc, password, charSigned, sensorValue, inChar,
                   heartbeat_rate, rate, cur_sec, serialIn, consumed, i,
                   binary_pattern, string_data, phase, sent, firstWrites,
                   pathsSeen, reading, xCredit>>

\* SendBit that also takes a waiting byte out of the receive buffer.
SendBitReadsSerial ==
    /\ pc = "send"
    /\ j < Len(string_data)
    /\ pin' = PinLevel(string_data[j + 1])
    /\ writes' = Append(writes, PinLevel(string_data[j + 1]))
    /\ clock' = clock + signal_time
    /\ serialOut' = Append(serialOut, <<string_data[j + 1]>>)
    /\ j' = j + 1
    /\ inChar' = IF Len(serialIn) > 0 THEN ToChar(Head(serialIn)) ELSE inChar
    /\ serialIn' = IF Len(serialIn) > 0 THEN Tail(serialIn) ELSE serialIn
    /\ UNCHANGED <<pc, password, charSigned, sensorValue,
                   heartbeat_rate, rate, cur_sec, consumed, i,
                   binary_pattern, string_data, phase, sent, firstWrites,
                   pathsSeen, reading, xCredit>>

\* Lines 19-25: one pass of send_string()'s for loop.
SendBit ==
    /\ pc = "send"
    /\ j < Len(string_data)
    /\ pin' = PinLevel(string_data[j + 1])
    /\ writes' = Append(writes, PinLevel(string_data[j + 1]))
    /\ clock' = clock + signal_time
    /\ serialOut' = Append(serialOut, <<string_data[j + 1]>>)
    /\ j' = j + 1
    /\ UNCHANGED <<pc, password, charSigned, sensorValue, inChar,
                   heartbeat_rate, rate, cur_sec, serialIn, consumed, i,
                   binary_pattern, string_data, phase, sent, firstWrites,
                   pathsSeen,
                   reading, xCredit>>

\* StartSyncDone with the payload index not set back to 0.
StartSyncDoneKeepsIndex ==
    /\ pc = "send"
    /\ ~(j < Len(string_data))
    /\ phase = "SENDING_START_SYNC"
    /\ string_data' = <<>>
    /\ j' = 0
    /\ phase' = "SENDING_PAYLOAD"
    /\ pc' = "payload"
    /\ UNCHANGED <<pin, password, charSigned, sensorValue, inChar,
                   heartbeat_rate, rate, clock, cur_sec, serialIn, consumed,
                   i, binary_pattern, sent, writes, firstWrites, pathsSeen,
                   serialOut,
                   reading, xCredit>>

\* Lines 19, 36 and 38: send_string(sync_pattern_start) returns; int i = 0.
StartSyncDone ==
    /\ pc = "send"
    /\ ~(j < Len(string_data))
    /\ phase = "SENDING_START_SYNC"
    /\ i' = 0
    /\ string_data' = <<>>
    /\ j' = 0
    /\ phase' = "SENDING_PAYLOAD"
    /\ pc' = "payload"
    /\ UNCHANGED <<pin, password, charSigned, sensorValue, inChar,
                   heartbeat_rate, rate, clock, cur_sec, serialIn, consumed,
                   binary_pattern, sent, writes, firstWrites, pathsSeen,
                   serialOut,
                   reading, xCredit>>

\* Lines 38-39: the next password byte; String(password[i], BIN).
EncodeByte ==
    /\ pc = "payload"
    /\ i < Len(password)
    /\ binary_pattern' = StringBIN(CharOf(password[i + 1]))
    /\ pc' = "pad"
    /\ UNCHANGED <<pin, password, charSigned, sensorValue, inChar,
                   heartbeat_rate, rate, clock, cur_sec, serialIn, consumed,
                   i, string_data, j, phase, sent, writes, firstWrites,
                   pathsSeen, serialOut,
                   reading, xCredit>>

\* Lines 40-42: one pass of the zero-pad loop.
PadStep ==
    /\ pc = "pad"
    /\ Len(binary_pattern) < PadWidth
    /\ binary_pattern' = <<"0">> \o binary_pattern
    /\ UNCHANGED <<pc, pin, password, charSigned, sensorValue, inChar,
                   heartbeat_rate, rate, clock, cur_sec, serialIn, consumed,
                   i, string_data, j, phase, sent, writes, firstWrites,
                   pathsSeen, serialOut,
                   reading, xCredit>>

\* Lines 40, 44 and 46: padded; print and call send_string(binary_pattern).
PadDone ==
    /\ pc = "pad"
    /\ ~(Len(binary_pattern) < PadWidth)
    /\ serialOut' = Append(serialOut, binary_pattern)
    /\ string_data' = binary_pattern
    /\ j' = 0
    /\ sent' = sent \o binary_pattern
    /\ pc' = "send"
    /\ UNCHANGED <<pin, password, charSigned, sensorValue, inChar,
                   heartbeat_rate, rate, clock, cur_sec, serialIn, consumed,
                   i, binary_pattern, phase, writes, firstWrites, pathsSeen,
                   reading, xCredit>>

\* Lines 19, 46 and 38: send_string(binary_pattern) returns; i++.
ByteDone ==
    /\ pc = "send"
    /\ ~(j < Len(string_data))
    /\ phase = "SENDING_PAYLOAD"
    /\ i' = i + 1
    /\ binary_pattern' = <<>>
    /\ string_data' = <<>>
    /\ j' = 0
    /\ pc' = "payload"
    /\ UNCHANGED <<pin, password, charSigned, sensorValue, inChar,
                   heartbeat_rate, rate, clock, cur_sec, serialIn, consumed,
                   phase, sent, writes, firstWrites, pathsSeen, serialOut,
                   reading, xCredit>>

\* BeginEndSync sending the start pattern a second time.
BeginEndSyncSendsStart ==
    /\ pc = "payload"
    /\ ~(i < Len(password))
    /\ phase' = "SENDING_END_SYNC"
    /\ string_data' = sync_pattern_start
    /\ j' = 0
    /\ sent' = sent \o sync_pattern_start
    /\ pc' = "send"
    /\ UNCHANGED <<pin, password, charSigned, sensorValue, inChar,
                   heartbeat_rate, rate, clock, cur_sec, serialIn, consumed,
                   i, binary_pattern, writes, firstWrites, pathsSeen,
                   serialOut,
                   reading, xCredit>>

\* Lines 38 and 48: the payload is done; call send_string(sync_pattern_end).
BeginEndSync ==
    /\ pc = "payload"
    /\ ~(i < Len(password))
    /\ phase' = "SENDING_END_SYNC"
    /\ string_data' = sync_pattern_end
    /\ j' = 0
    /\ sent' = sent \o sync_pattern_end
    /\ pc' = "send"
    /\ UNCHANGED <<pin, password, charSigned, sensorValue, inChar,
                   heartbeat_rate, rate, clock, cur_sec, serialIn, consumed,
                   i, binary_pattern, writes, firstWrites, pathsSeen,
                   serialOut,
                   reading, xCredit>>

\* Lines 19 and 48: send_string(sync_pattern_end) returns.
EndSyncDone ==
    /\ pc = "send"
    /\ ~(j < Len(string_data))
    /\ phase = "SENDING_END_SYNC"
    /\ string_data' = <<>>
    /\ j' = 0
    /\ pc' = "finish"
    /\ UNCHANGED <<pin, password, charSigned, sensorValue, inChar,
                   heartbeat_rate, rate, clock, cur_sec, serialIn, consumed,
                   i, binary_pattern, phase, sent, writes, firstWrites,
                   pathsSeen, serialOut,
                   reading, xCredit>>

\* Finish without the reset of inChar at line 53.
FinishKeepsChar ==
    /\ pc = "finish"
    /\ pin' = "LOW"
    /\ writes' = Append(writes, "LOW")
    /\ firstWrites' = IF firstWrites = <<>> THEN Append(writes, "LOW")
                      ELSE firstWrites
    /\ sensorValue' = 0
    /\ heartbeat_rate' = 0
    /\ rate' = 0
    /\ consumed' = <<>>
    /\ serialOut' = <<>>
    /\ phase' = "IDLE"
    /\ pc' = "loop"
    /\ UNCHANGED <<password, charSigned, inChar, clock, cur_sec, serialIn, i,
                   binary_pattern, string_data, j, sent, pathsSeen,
                   reading, xCredit>>

\* Finish with the idle write of line 49 writing HIGH.
FinishIdleHigh ==
    /\ pc = "finish"
    /\ pin' = "HIGH"
    /\ writes' = Append(writes, "HIGH")
    /\ firstWrites' = IF firstWrites = <<>> THEN Append(writes, "HIGH")
                      ELSE firstWrites
    /\ sensorValue' = 0
    /\ heartbeat_rate' = 0
    /\ inChar' = CharSpace
    /\ rate' = 0
    /\ consumed' = <<>>
    /\ serialOut' = <<>>
    /\ phase' = "IDLE"
    /\ pc' = "loop"
    /\ UNCHANGED <<password, charSigned, clock, cur_sec, serialIn, i,
                   binary_pattern, string_data, j, sent, pathsSeen,
                   reading, xCredit>>

\* Finish without the idle write of line 49.
FinishNoIdleWrite ==
    /\ pc = "finish"
    /\ firstWrites' = IF firstWrites = <<>> THEN writes ELSE firstWrites
    /\ sensorValue' = 0
    /\ heartbeat_rate' = 0
    /\ inChar' = CharSpace
    /\ rate' = 0
    /\ consumed' = <<>>
    /\ serialOut' = <<>>
    /\ phase' = "IDLE"
    /\ pc' = "loop"
    /\ UNCHANGED <<pin, password, charSigned, clock, cur_sec, serialIn, i,
                   binary_pattern, string_data, j, sent, writes, pathsSeen,
                   reading, xCredit>>

\* Lines 49-53: the idle write, the reset, and loop() returns.
Finish ==
    /\ pc = "finish"
    /\ pin' = "LOW"
    /\ writes' = Append(writes, "LOW")
    /\ firstWrites' = IF firstWrites = <<>> THEN Append(writes, "LOW")
                      ELSE firstWrites
    /\ sensorValue' = 0
    /\ heartbeat_rate' = 0
    /\ inChar' = CharSpace
    /\ rate' = 0
    /\ consumed' = <<>>
    /\ serialOut' = <<>>
    /\ phase' = "IDLE"
    /\ pc' = "loop"
    /\ UNCHANGED <<password, charSigned, clock, cur_sec, serialIn, i,
                   binary_pattern, string_data, j, sent, pathsSeen,
                   reading, xCredit>>

Next ==
    \/ \E b \in CommandBytes : Receive(b)
    \/ \E v \in AnalogValues : LoopIdle(v)
    \/ \E v \in AnalogValues : LoopActive(v)
    \/ \E v \in AnalogValues : MonitorPoll(v)
    \/ MonitorReturn
    \/ DecideSend
    \/ DecideSkip
    \/ SendBit
    \/ StartSyncDone
    \/ EncodeByte
    \/ PadStep
    \/ PadDone
    \/ ByteDone
    \/ BeginEndSync
    \/ EndSyncDone
    \/ Finish

Spec == Init /\ [][Next]_vars

\* The steps of a loop() call after its activity test: the passes of
\* readHeartBeat(), the decision and the frame.  Each is a bounded run of
\* statements and delay() calls, which returns as time advances.
Run ==
    \/ \E v \in AnalogValues : MonitorPoll(v)
    \/ MonitorReturn
    \/ DecideSend
    \/ DecideSkip
    \/ SendBit
    \/ StartSyncDone
    \/ EncodeByte
    \/ PadStep
    \/ PadDone
    \/ ByteDone
    \/ BeginEndSync
    \/ EndSyncDone
    \/ Finish

\* The program as shipped: the password of line 2, "PASS".
InitLive == Init /\ password = <<80, 65, 83, 83>>

\* The program with time advancing: a started loop() call keeps running.
\* Nothing is assumed of the sensor or of the serial peer.
SpecLive == InitLive /\ [][Next]_vars /\ WF_vars(Run)

\* The program with an absent sensor: every analogRead() returns 0.
NextAbsent ==
    \/ \E b \in CommandBytes : Receive(b)
    \/ LoopIdle(0)
    \/ LoopActive(0)
    \/ MonitorPoll(0)
    \/ MonitorReturn
    \/ DecideSend
    \/ DecideSkip
    \/ SendBit
    \/ StartSyncDone
    \/ EncodeByte
    \/ PadStep
    \/ PadDone
    \/ ByteDone
    \/ BeginEndSync
    \/ EndSyncDone
    \/ Finish

SpecAbsent == Init /\ [][NextAbsent]_vars

---------------------------------------------------------------------------
(* The per-byte encoder on its own: every byte value, both char kinds *)

\* The state at line 38 of a frame started by an 'X' byte with a silent
\* sensor, for a one-byte password holding any byte value.
InitEnc ==
    /\ pc = "payload"
    /\ pin = "HIGH"
    /\ password \in {<<b>> : b \in 0..255}
    /\ charSigned \in BOOLEAN
    /\ sensorValue = 0
    /\ inChar = CharX
    /\ heartbeat_rate = 0
    /\ rate = 0
    /\ clock = Window + Len(sync_pattern_start) * signal_time
    /\ cur_sec = 0
    /\ serialIn = <<>>
    /\ consumed = <<CharX>>
    /\ i = 0
    /\ binary_pattern = <<>>
    /\ string_data = <<>>
    /\ j = 0
    /\ phase = "SENDING_PAYLOAD"
    /\ sent = sync_pattern_start
    /\ writes = [k \in 1..Len(sync_pattern_start) |->
                    PinLevel(sync_pattern_start[k])]
    /\ firstWrites = <<>>
    /\ pathsSeen = {"cmd"}
    /\ serialOut = <<StringDEC(0)>> \o
                   [k \in 1..Len(sync_pattern_start) |->
                       <<sync_pattern_start[k]>>]
    /\ reading = 0
    /\ xCredit = 0

NextEnc ==
    \/ EncodeByte
    \/ PadStep

SpecEnc == InitEnc /\ [][NextEnc]_vars

---------------------------------------------------------------------------
(* Reference definitions the claims are stated with *)

\* The control positions inside a frame.
InFrame == pc \in {"send", "payload", "pad", "finish"}

\* The 8-bit, most-significant-bit-first, zero-padded pattern of byte b.
Bits8(b) == [k \in 1..8 |-> IF (b \div (2 ^ (8 - k))) % 2 = 1 THEN "1" ELSE "0"]

\* The value of a sequence of bit characters read as a base-2 numeral.
RECURSIVE BinValue(_)
BinValue(s) ==
    IF s = <<>> THEN 0
    ELSE 2 * BinValue(SubSeq(s, 1, Len(s) - 1))
         + (IF s[Len(s)] = "1" THEN 1 ELSE 0)

\* The 8-bit patterns of the bytes of s, concatenated.
RECURSIVE PayloadBits(_)
PayloadBits(s) ==
    IF s = <<>> THEN <<>> ELSE Bits8(Head(s)) \o PayloadBits(Tail(s))

\* The frame of a secret: start pattern, payload, end pattern.
FrameBits(s) ==
    <<"0", "0", "0", "1", "0", "1", "1", "0", "0">>
    \o PayloadBits(s)
    \o <<"0", "0", "0", "0", "1", "1", "1", "1">>

---------------------------------------------------------------------------
(* C1 *)

\* C1: when the last send_string() call of a transmission has returned, the
\* characters handed to send_string() are exactly SYNC_START, the 8-bit
\* MSB-first pattern of every secret byte in order, and SYNC_END.
C1_FrameExact == pc = "finish" => sent = FrameBits(password)

\* The same statement for the secrets whose bytes all pass through char
\* unchanged (values below 128, or an unsigned char).
FrameExactPlainChar ==
    (pc = "finish" /\ \A k \in 1..Len(password) : CharOf(password[k]) >= 0)
        => sent = FrameBits(password)

---------------------------------------------------------------------------
(* C2 *)

\* C2: when the zero-pad loop has ended, binary_pattern holds exactly 8
\* characters, each '0' or '1', and its base-2 value is the byte encoded.
C2_EncodeByte ==
    (pc = "pad" /\ ~(Len(binary_pattern) < PadWidth)) =>
        /\ Len(binary_pattern) = 8
        /\ \A k \in 1..Len(binary_pattern) : binary_pattern[k] \in {"0", "1"}
        /\ BinValue(binary_pattern) = password[i + 1]

\* The same statement for the bytes that pass through char unchanged.
EncodeBytePlainChar ==
    (pc = "pad" /\ ~(Len(binary_pattern) < PadWidth)
                /\ CharOf(password[i + 1]) >= 0) =>
        /\ Len(binary_pattern) = 8
        /\ \A k \in 1..Len(binary_pattern) : binary_pattern[k] \in {"0", "1"}
        /\ BinValue(binary_pattern) = password[i + 1]

---------------------------------------------------------------------------
(* C3 *)

\* C3: inside a frame the levels written so far are, one per character and
\* in order, those of the characters handed to send_string() that its loop
\* has passed, HIGH exactly for '0'; the pin holds the last level written;
\* and when the last call has returned every character has been written.
C3_InvertedWrites ==
    InFrame =>
        /\ Len(writes) = Len(sent) - (Len(string_data) - j)
        /\ \A k \in 1..Len(writes) : (writes[k] = "HIGH") <=> (sent[k] = "0")
        /\ \A k \in 1..Len(writes) : writes[k] \in {"HIGH", "LOW"}
        /\ writes # <<>> => pin = writes[Len(writes)]
        /\ pc = "finish" => Len(writes) = Len(sent)

\* A whole frame of "PASS" has been driven, with both levels in it.
C3_Witness ==
    /\ pc = "finish"
    /\ password = <<80, 65, 83, 83>>
    /\ Len(writes) = 17 + 8 * 4
    /\ writes[1] = "HIGH"
    /\ writes[4] = "LOW"

---------------------------------------------------------------------------
(* C4 *)

\* C4: when readHeartBeat() has returned, the rate is 12 times the count of
\* active polls, and the step that leaves the decision starts a frame
\* exactly when the count exceeds 5 or the stored byte is 'X'; so a count of
\* 5 (rate 60) without 'X' starts none and a count of 6 (rate 72) starts one.
C4_RateBoundary ==
    [][(pc = "decide" /\ pc' # "decide") =>
          /\ heartbeat_rate = 12 * rate
          /\ (pc' = "send") <=> (rate > 5 \/ inChar = 88)
          /\ (pc' = "loop") <=> ~(rate > 5 \/ inChar = 88)]_vars

\* A frame started by the rate path alone, at the boundary count of 6.
C4_Witness ==
    /\ pc = "send"
    /\ rate = 6
    /\ heartbeat_rate = 72
    /\ inChar # 88
    /\ consumed = <<>>

\* The decision reached with exactly 5 active polls and no 'X' byte.
C4_BoundaryNoFire ==
    pc = "decide" /\ rate = 5 /\ heartbeat_rate = 60 /\ inChar # 88

---------------------------------------------------------------------------
(* C5 *)

\* C5: a loop() call that has consumed the byte 'X' holds it in inChar,
\* leaves the decision only by starting a frame, whatever the rate, and
\* returns only through the end of the frame, where the whole frame, from
\* start pattern to end pattern, has been driven onto the pin.
C5_CommandOverride ==
    [][consumed = <<88>> =>
          /\ inChar = 88
          /\ (pc = "decide" /\ pc' # "decide") => pc' = "send"
          /\ (pc # "loop" /\ pc' = "loop") => pc = "finish"
          /\ pc = "finish" =>
                /\ Len(sent) >= 17
                /\ SubSeq(sent, 1, 9) = sync_pattern_start
                /\ SubSeq(sent, Len(sent) - 7, Len(sent)) = sync_pattern_end
                /\ Len(writes) = Len(sent)]_vars

\* A whole frame driven in a loop() call that consumed 'X', read a silent
\* sensor and derived the rate 0.
C5_Witness ==
    /\ pc = "finish"
    /\ consumed = <<88>>
    /\ sensorValue = 0
    /\ rate = 0
    /\ heartbeat_rate = 0
    /\ Len(writes) = Len(sent)

---------------------------------------------------------------------------
(* C6 *)

\* C6: when the last send_string() call of a transmission has returned, the
\* characters sent start with "000101100" and end with "00001111", whatever
\* the secret; for the empty secret they are these 17 characters and no
\* others.
C6_SyncFraming ==
    pc = "finish" =>
        /\ Len(sent) >= 17
        /\ SubSeq(sent, 1, 9) = <<"0", "0", "0", "1", "0", "1", "1", "0", "0">>
        /\ SubSeq(sent, Len(sent) - 7, Len(sent))
               = <<"0", "0", "0", "0", "1", "1", "1", "1">>
        /\ password = <<>> =>
               /\ Len(sent) = 17
               /\ sent = <<"0", "0", "0", "1", "0", "1", "1", "0", "0",
                           "0", "0", "0", "0", "1", "1", "1", "1">>

\* The frame of the empty secret has been sent.
C6_Witness == pc = "finish" /\ password = <<>> /\ Len(sent) = 17

---------------------------------------------------------------------------
(* C7 *)

\* C7: the step that ends a transmission writes LOW, one more write after
\* those of the frame and whatever the pin held, and returns to the top of
\* loop(); so after a transmission the pin is LOW and LOW is the last level
\* written.
C7_IdleAfterFrame ==
    [][/\ (pc = "finish" /\ pc' # "finish") =>
              /\ pc' = "loop"
              /\ pin' = "LOW"
              /\ writes' = Append(writes, "LOW")
       /\ (pc' = "loop" /\ writes' # <<>>) =>
              /\ pin' = "LOW"
              /\ writes'[Len(writes')] = "LOW"
              /\ Len(writes') = Len(sent') + 1]_vars

\* A transmission has completed: the frame's writes and the idle write.
C7_Witness ==
    /\ pc = "loop"
    /\ writes # <<>>
    /\ Len(writes) = Len(sent) + 1
    /\ pin = "LOW"

---------------------------------------------------------------------------
(* C8 *)

\* C8: a step changes the pin level only if it is a pass of send_string()'s
\* loop; the trigger poll, readHeartBeat() and the trigger decision neither
\* change the level nor write the pin.
C8_PinFrame ==
    [][/\ pin' # pin => (pc = "send" /\ pc' = "send" /\ j' = j + 1)
       /\ pc \in {"loop", "monitor"} => (pin' = pin /\ writes' = writes)
       /\ pc = "decide" => pin' = pin]_vars

\* readHeartBeat() has counted active polls, and send_string() has since
\* driven the pin HIGH and back to LOW.
C8_Witness ==
    /\ pc = "finish"
    /\ rate > 0
    /\ pin = "LOW"
    /\ \E k \in 1..Len(writes) : writes[k] = "HIGH"

---------------------------------------------------------------------------
(* C9 *)

\* C9: the levels every transmission drives are those the first transmission
\* drove: at each point inside a later frame the levels written so far are a
\* prefix of the first frame's, and once it has completed they are the same
\* sequence, whichever trigger path started either.
C9_SameLevels ==
    /\ (InFrame /\ firstWrites # <<>>) =>
           /\ Len(writes) <= Len(firstWrites)
           /\ writes = SubSeq(firstWrites, 1, Len(writes))
    /\ (pc = "loop" /\ writes # <<>>) => writes = firstWrites

\* Frames of "PASS" started by the rate path and by the command path have
\* both completed.
C9_Witness ==
    /\ pc = "loop"
    /\ password = <<80, 65, 83, 83>>
    /\ pathsSeen = {"rate", "cmd"}
    /\ writes # <<>>
    /\ writes = firstWrites

---------------------------------------------------------------------------
(* C10 *)

\* MonitorReturn with the Serial.println call of line 68 removed.
MonitorReturnNoPrint ==
    /\ pc = "monitor"
    /\ ~(clock - cur_sec < Window)
    /\ heartbeat_rate' = RateScale * rate
    /\ reading' = 0
    /\ pc' = "decide"
    /\ UNCHANGED <<pin, password, charSigned, sensorValue, inChar, rate,
                   clock, cur_sec, serialIn, consumed, i, binary_pattern,
                   string_data, j, phase, sent, writes, firstWrites,
                   pathsSeen,
                   xCredit>>

\* SendBit with the Serial.println call of line 25 removed.
SendBitNoPrint ==
    /\ pc = "send"
    /\ j < Len(string_data)
    /\ pin' = (IF string_data[j + 1] = "0" THEN "HIGH" ELSE "LOW")
    /\ writes' = Append(writes, pin')
    /\ clock' = clock + signal_time
    /\ j' = j + 1
    /\ UNCHANGED <<pc, password, charSigned, sensorValue, inChar,
                   heartbeat_rate, rate, cur_sec, serialIn, consumed, i,
                   binary_pattern, string_data, phase, sent, firstWrites,
                   pathsSeen,
                   reading, xCredit>>

\* PadDone with the Serial.println call of line 44 removed.
PadDoneNoPrint ==
    /\ pc = "pad"
    /\ ~(Len(binary_pattern) < PadWidth)
    /\ string_data' = binary_pattern
    /\ j' = 0
    /\ sent' = sent \o binary_pattern
    /\ pc' = "send"
    /\ UNCHANGED <<pin, password, charSigned, sensorValue, inChar,
                   heartbeat_rate, rate, clock, cur_sec, serialIn, consumed,
                   i, binary_pattern, phase, writes, firstWrites, pathsSeen,
                   reading, xCredit>>

\* The steps of the program with every Serial.println call removed.
NextNoPrint ==
    \/ \E b \in CommandBytes : Receive(b)
    \/ \E v \in AnalogValues : LoopIdle(v)
    \/ \E v \in AnalogValues : LoopActive(v)
    \/ \E v \in AnalogValues : MonitorPoll(v)
    \/ MonitorReturnNoPrint
    \/ DecideSend
    \/ DecideSkip
    \/ SendBitNoPrint
    \/ StartSyncDone
    \/ EncodeByte
    \/ PadStep
    \/ PadDoneNoPrint
    \/ ByteDone
    \/ BeginEndSync
    \/ EndSyncDone
    \/ Finish

\* C10: every step of the program, seen on all of its state but the printed
\* output, is a step of the program without its Serial.println calls: the
\* printing changes no trigger decision, pin write or other protocol state.
C10_PrintsObservational == [][NextNoPrint]_protoVars

\* A frame of "PASS" has been sent with the rate, every bit and every byte
\* pattern printed.
C10_Witness ==
    /\ pc = "finish"
    /\ password = <<80, 65, 83, 83>>
    /\ Len(serialOut) = 1 + Len(sent) + Len(password)

---------------------------------------------------------------------------
(* C11 *)

\* C11: inside readHeartBeat() every pass of the loop takes 200 time-units
\* and adds 1 to the count exactly when its reading exceeds zero; the call
\* returns when 5000 time-units, that is 25 passes, have gone by, and the
\* rate it returns is 12 times the count, a multiple of 12 from 0 to 300.
C11_SampleWindow ==
    [][/\ pc = "monitor" =>
              /\ (clock - cur_sec) % 200 = 0
              /\ (clock - cur_sec) \div 200 \in 0..25
              /\ rate \in 0..((clock - cur_sec) \div 200)
       /\ (pc = "monitor" /\ pc' = "monitor" /\ serialIn' = serialIn) =>
              /\ clock' = clock + 200
              /\ rate' = rate + (IF reading' > 0 THEN 1 ELSE 0)
       /\ (pc = "monitor" /\ pc' # "monitor") =>
              /\ pc' = "decide"
              /\ (clock - cur_sec) \div 200 = 25
              /\ heartbeat_rate' = 12 * rate
              /\ heartbeat_rate' % 12 = 0
              /\ heartbeat_rate' \in 0..300]_vars

\* readHeartBeat() has returned after 25 polls that were all active.
C11_Witness ==
    /\ pc = "decide"
    /\ clock - cur_sec = 5000
    /\ rate = 25
    /\ heartbeat_rate = 300

---------------------------------------------------------------------------
(* C12 *)

\* C12: a frame is entered only from the trigger decision, with the
\* transmitter idle and readHeartBeat()'s whole window elapsed; the first
\* bit is driven only after that; from then to the last bit no step reads
\* the sensor, takes a byte out of the receive buffer or changes the stored
\* byte or rate; and neither readHeartBeat() nor a second frame starts
\* while a frame is in progress.
C12_StrictSequencing ==
    [][/\ (~InFrame /\ pc' \in {"send", "payload", "pad", "finish"}) =>
              /\ pc = "decide"
              /\ pc' = "send"
              /\ phase = "IDLE"
              /\ clock - cur_sec >= 5000
              /\ heartbeat_rate = 12 * rate
              /\ writes' = <<>>
       /\ (writes' # writes /\ Len(writes') = 1) =>
              /\ pc = "send"
              /\ phase = "SENDING_START_SYNC"
              /\ clock - cur_sec >= 5000
       /\ (InFrame /\ pc # "finish") =>
              /\ pc' \in {"send", "payload", "pad", "finish"}
              /\ consumed' = consumed
              /\ inChar' = inChar
              /\ sensorValue' = sensorValue
              /\ reading' = reading
              /\ heartbeat_rate' = heartbeat_rate
              /\ rate' = rate
              /\ \/ serialIn' = serialIn
                 \/ \E b \in 0..255 : serialIn' = Append(serialIn, b)
              /\ Len(sent') >= Len(sent)
              /\ Len(writes') >= Len(writes)
       /\ pc = "finish" => pc' \in {"finish", "loop"}
       /\ pc \in {"loop", "monitor", "decide"} => phase = "IDLE"]_vars

\* An 'X' byte is waiting, unread, while the payload of a frame started by
\* the rate path is being driven.
C12_Witness ==
    /\ pc = "send"
    /\ phase = "SENDING_PAYLOAD"
    /\ j > 0
    /\ consumed = <<>>
    /\ serialIn # <<>>
    /\ serialIn[1] = 88

---------------------------------------------------------------------------
(* C13 *)

\* C13: the transmitter's phase changes only along IDLE -> SENDING_START_SYNC
\* -> SENDING_PAYLOAD -> SENDING_END_SYNC -> IDLE.  It leaves IDLE only at
\* the trigger decision of a loop() call whose rate exceeds 60 or whose byte
\* is 'X'; it leaves each sending phase only when that phase's bits have all
\* been driven; and it is IDLE exactly outside a frame.
C13_PhaseMachine ==
    [][/\ phase' # phase =>
              \/ /\ phase = "IDLE"
                 /\ phase' = "SENDING_START_SYNC"
                 /\ pc = "decide"
                 /\ heartbeat_rate = 12 * rate
                 /\ heartbeat_rate > 60 \/ inChar = 88
                 /\ writes' = <<>>
              \/ /\ phase = "SENDING_START_SYNC"
                 /\ phase' = "SENDING_PAYLOAD"
                 /\ Len(sent) = 9
                 /\ Len(writes) = 9
              \/ /\ phase = "SENDING_PAYLOAD"
                 /\ phase' = "SENDING_END_SYNC"
                 /\ i = Len(password)
                 /\ Len(writes) = Len(sent)
                 /\ sent' = sent \o <<"0", "0", "0", "0", "1", "1", "1", "1">>
              \/ /\ phase = "SENDING_END_SYNC"
                 /\ phase' = "IDLE"
                 /\ Len(writes) = Len(sent)
                 /\ pc' = "loop"
       /\ (phase = "IDLE") <=> ~InFrame
       /\ phase \in {"IDLE", "SENDING_START_SYNC", "SENDING_PAYLOAD",
                     "SENDING_END_SYNC"}
       /\ phase = "SENDING_START_SYNC" => (pc = "send" /\ Len(sent) = 9)
       /\ phase = "SENDING_PAYLOAD" =>
              (i <= Len(password) /\ Len(writes) >= 9 /\ pc # "finish")
       /\ pc = "finish" => phase = "SENDING_END_SYNC"]_vars

\* The last bit of the end pattern of a frame of "PASS" has been driven:
\* the three sending phases have been passed through in order.
C13_Witness ==
    /\ pc = "send"
    /\ phase = "SENDING_END_SYNC"
    /\ password = <<80, 65, 83, 83>>
    /\ j = 8
    /\ Len(writes) = 49

---------------------------------------------------------------------------
(* C14 *)

\* C14: a loop() call that detects activity (a nonzero reading or a waiting
\* byte) takes exactly the first waiting byte out of the receive buffer,
\* whatever it is, or nothing when the buffer is empty, and then enters
\* readHeartBeat(); a call that detects none takes nothing; and a call that
\* took a byte other than 'X' and derived a rate of at most 60 returns
\* without a frame or a pin write, the byte gone.
C14_ConsumeOne ==
    [][/\ (pc = "loop" /\ pc' # "loop") =>
              /\ pc' = "monitor"
              /\ rate' = 0
              /\ cur_sec' = clock'
              /\ sensorValue' > 0 \/ serialIn # <<>>
              /\ serialIn # <<>> =>
                     /\ serialIn' = Tail(serialIn)
                     /\ consumed' = <<Head(serialIn)>>
                     /\ inChar' = Head(serialIn)
              /\ serialIn = <<>> =>
                     /\ serialIn' = <<>>
                     /\ consumed' = <<>>
       /\ (pc = "loop" /\ pc' = "loop") =>
              /\ consumed' = <<>>
              /\ \/ serialIn' = serialIn
                 \/ \E b \in 0..255 : serialIn' = Append(serialIn, b)
       /\ (/\ pc = "decide"
           /\ pc' # "decide"
           /\ Len(consumed) = 1
           /\ consumed[1] # 88
           /\ heartbeat_rate <= 60) =>
              /\ pc' = "loop"
              /\ consumed' = <<>>
              /\ inChar' = 32
              /\ serialIn' = serialIn
              /\ pin' = pin
              /\ writes' = writes
              /\ sent' = sent
       /\ Len(consumed) <= 1]_vars

\* A loop() call has taken the byte 'x', left the buffer empty and derived
\* the rate 60.
C14_Witness ==
    /\ pc = "decide"
    /\ consumed = <<120>>
    /\ inChar = 120
    /\ serialIn = <<>>
    /\ heartbeat_rate = 60

---------------------------------------------------------------------------
(* C15 *)

\* C15: with every analog reading zero the count and the rate stay 0 and
\* the rate path starts no frame; a frame is in progress, and the pin HIGH,
\* only in a loop() call that took an 'X' byte out of the receive buffer, so
\* without an 'X' byte nothing is ever sent; and a call that took an 'X'
\* byte leaves the decision only by starting a frame.
C15_AbsentSensor ==
    [][/\ rate = 0
       /\ heartbeat_rate = 0
       /\ sensorValue = 0
       /\ reading = 0
       /\ ~("rate" \in pathsSeen)
       /\ InFrame => (consumed = <<88>> /\ inChar = 88)
       /\ pin = "HIGH" => InFrame
       /\ firstWrites # <<>> => "cmd" \in pathsSeen
       /\ (pc = "decide" /\ pc' # "decide") =>
              ((pc' = "send") <=> (consumed = <<88>>))]_vars

\* With the sensor absent, a frame of "PASS" started by an 'X' byte has
\* completed.
C15_Witness ==
    /\ pc = "loop"
    /\ password = <<80, 65, 83, 83>>
    /\ pathsSeen = {"cmd"}
    /\ firstWrites # <<>>
    /\ writes = firstWrites
    /\ pin = "LOW"

---------------------------------------------------------------------------
(* C16 *)

\* C16: inside a frame the time since readHeartBeat() returned is 100
\* time-units for every pin write made, so writes are 100 apart, and when
\* the last bit's dwell is over the frame of an n-byte secret has taken
\* 100 * (17 + 8n) time-units.
C16_FrameTiming ==
    /\ InFrame => clock - (cur_sec + 5000) = 100 * Len(writes)
    /\ pc = "finish" =>
           clock - (cur_sec + 5000) = 100 * (17 + 8 * Len(password))

\* The dwell alone: a step that writes a bit takes 100 time-units, no other
\* step inside a frame takes any, and a frame lasts 100 time-units for each
\* character handed to send_string().
DwellPerBit ==
    [][InFrame =>
          /\ clock - (cur_sec + 5000) = 100 * Len(writes)
          /\ (pc = "send" /\ writes' # writes) => clock' = clock + 100
          /\ writes' = writes => clock' = clock
          /\ pc = "finish" => clock - (cur_sec + 5000) = 100 * Len(sent)]_vars

\* The frame timing for the secrets whose bytes pass through char unchanged.
FrameTimingPlainChar ==
    (pc = "finish" /\ \A k \in 1..Len(password) : CharOf(password[k]) >= 0)
        => clock - (cur_sec + 5000) = 100 * (17 + 8 * Len(password))

---------------------------------------------------------------------------
(* C17 *)

\* C17: at the top of loop() the stored byte is never 'X'; a loop() call
\* entered with an empty receive buffer stores the value of the empty read,
\* which is not 'X'; the stored byte is 'X' during a call only if that call
\* took an 'X' byte out of the buffer, so a frame at a rate of at most 60
\* is sent only by such a call; and the frames started by the 'X' path
\* never outnumber the 'X' bytes received.
C17_NoStaleCommand ==
    [][/\ pc = "loop" => inChar # 88
       /\ (pc = "loop" /\ pc' = "monitor" /\ serialIn = <<>>) =>
              /\ inChar' # 88
              /\ inChar' \in {-1, 255}
              /\ consumed' = <<>>
       /\ (pc # "loop" /\ inChar = 88) => consumed = <<88>>
       /\ (InFrame /\ heartbeat_rate <= 60) => consumed = <<88>>
       /\ xCredit >= 0]_vars

\* After a frame started by an 'X' byte, a later loop() call entered on a
\* nonzero reading with nothing to read reaches the decision at rate 60.
C17_Witness ==
    /\ pc = "decide"
    /\ "cmd" \in pathsSeen
    /\ firstWrites # <<>>
    /\ consumed = <<>>
    /\ sensorValue > 0
    /\ inChar \in {-1, 255}
    /\ heartbeat_rate = 60

---------------------------------------------------------------------------
(* C18 *)

\* C18: from the end of setup() on, whenever loop() is polling for a
\* trigger, readHeartBeat() is running or the trigger is being decided, the
\* pin is LOW; the pin is HIGH only inside a frame, after its first bit.
C18_IdleLow ==
    /\ pc \in {"loop", "monitor", "decide"} => pin = "LOW"
    /\ pin = "HIGH" => (InFrame /\ pc # "finish" /\ writes # <<>>)
    /\ pin \in {"LOW", "HIGH"}

\* readHeartBeat() is running, with active polls counted, after a frame
\* has completed.
C18_Witness ==
    /\ pc = "monitor"
    /\ rate > 0
    /\ firstWrites # <<>>
    /\ pin = "LOW"

---------------------------------------------------------------------------
(* C19 *)

\* C19: given that time advances, a running readHeartBeat() returns to the
\* trigger decision; and a trigger that has fired, like every state inside
\* a frame, is followed by loop() polling again with the transmitter idle,
\* every bit of the frame and the idle write made.
C19_Terminates ==
    /\ (pc = "monitor") ~> (pc = "decide")
    /\ ((pc = "decide" /\ (heartbeat_rate > 60 \/ inChar = 88)) \/ InFrame)
           ~> (pc = "loop" /\ phase = "IDLE"
                           /\ Len(writes) = Len(sent) + 1)

\* A frame of "PASS" has completed and loop() is polling again.
C19_Witness ==
    /\ pc = "loop"
    /\ phase = "IDLE"
    /\ password = <<80, 65, 83, 83>>
    /\ clock = 5000 + 100 * Len(sent)
    /\ Len(writes) = Len(sent) + 1

=============================================================================
